---- MODULE Spec2Model ----
(***************************************************************************)
(* Model of path/dynamics.py: class Time (time_to_transition_state,        *)
(* time_steps) and class Transition (__init__, transition_state,           *)
(* trajectory).                                                            *)
(*                                                                         *)
(* Reals are modelled exactly where the code's arithmetic is rational      *)
(* (ratios, cumulative fractions, force constants) and in fixed point with *)
(* resolution 1/Scale where it is transcendental (np.log) or where times   *)
(* are compared.  Floating point rounding itself is not modelled.          *)
(***************************************************************************)
EXTENDS Integers, Sequences, FiniteSets, TLC

VARIABLES
    pc,           \* position of the modelled call
    eigenvalue,   \* time_to_transition_state: the spectrum passed in
    tts,          \* time_to_transition_state: the returned pair, or "none"
    args,         \* time_steps: the record of its seven parameters
    ret,          \* time_steps: how the call ended, with (t, energy) or the error
    self,         \* Transition: the instance's scalar fields and t_series
    eval_left,    \* the caller's eval_left list (self.eval1 is the same object)
    eval_right,   \* the caller's eval_right list (self.eval2 is the same object)
    eval_left0,   \* history: eval_left as it was when __init__ was called
    eval_right0,  \* history: eval_right as it was when __init__ was called
    others,       \* evec_left, evec_right, coord_left, coord_right as passed in
    ts,           \* transition_state: diagonals b_left, a_right, s_left, s_right
    xlr,          \* trajectory: the diagonal of the weight buffer xlr
    coord,        \* trajectory: the list coord, one entry per finished step
    step          \* trajectory: the loop variable step (0-based)

vars == <<pc, eigenvalue, tts, args, ret, self, eval_left, eval_right,
          eval_left0, eval_right0, others, ts, xlr, coord, step>>

\* Fixed-point resolution of the modelled reals: x is held as floor(x * Scale).
Scale == 100000

Abs(x) == IF x < 0 THEN -x ELSE x

(***************************************************************************)
(* Time.time_to_transition_state                                           *)
(***************************************************************************)

\* Bounds of the spectra tried.
MaxRetained == 3
EigSet == {1, 2, 40}

\* line 20-23
Skip(ev) == IF Len(ev) > 6 THEN 6 ELSE 5

\* line 25: the retained eigenvalues, eigenvalue[skip..len-1]
Retained(ev) == SubSeq(ev, Skip(ev) + 1, Len(ev))

RECURSIVE Product(_)
Product(s) == IF s = <<>> THEN 1 ELSE Head(s) * Product(Tail(s))

\* line 25: np.reciprocal of the retained eigenvalues, each 1/e held exactly
\* as the integer Product/e over the common denominator Product.
Reciprocal(ev) ==
    LET r == Retained(ev)
    IN  [i \in 1..Len(r) |-> Product(r) \div r[i]]

RECURSIVE SumTo(_, _)
SumTo(s, n) == IF n = 0 THEN 0 ELSE s[n] + SumTo(s, n - 1)

\* line 27: cumulative[j] = CumNum[j] / CumDen (np.cumsum / np.sum)
CumNum(ev) ==
    LET rc == Reciprocal(ev)
    IN  [j \in 1..Len(rc) |-> SumTo(rc, j)]

CumDen(ev) == SumTo(Reciprocal(ev), Len(Reciprocal(ev)))

\* line 29: the boolean array cumulative < 0.95
Below95(ev) ==
    LET c == CumNum(ev)
    IN  [j \in 1..Len(c) |-> 100 * c[j] < 95 * CumDen(ev)]

\* line 29: np.argmin of a boolean array is the 0-based index of its first
\* False, and 0 when every entry is True.
Argmin(b) ==
    IF \E j \in 1..Len(b) : ~b[j]
    THEN (CHOOSE j \in 1..Len(b) : ~b[j] /\ \A k \in 1..(j - 1) : b[k]) - 1
    ELSE 0

\* A non-negative rational or +inf is a pair <<n, d>>; d = 0 is +inf.
Inf == <<1, 0>>

\* line 31: 1.0 / (cumulative[cutoff_id] / cutoff_id + 1).  The operands are
\* numpy float64 scalars: dividing a positive one by zero yields inf (with a
\* RuntimeWarning, no exception), and 1.0 / (inf + 1) is 0.0.
AverageForceConstant(ev) ==
    LET k == Argmin(Below95(ev))
        c == CumNum(ev)[k + 1]
        d == CumDen(ev)
    IN  IF k = 0 THEN <<0, 1>>
        ELSE <<k * d, c + k * d>>

\* line 33: 7.0 / average_force_constant (float64 again: 7.0 / 0.0 is inf)
TimeOf(fc) == IF fc[1] = 0 THEN Inf ELSE <<7 * fc[2], fc[1]>>

time_to_transition_state(ev) ==
    [time |-> TimeOf(AverageForceConstant(ev)), fc |-> AverageForceConstant(ev)]

Spectra ==
    UNION {[1..n -> EigSet] : n \in 6..(6 + MaxRetained)}

(***************************************************************************)
(* Time.time_steps                                                         *)
(***************************************************************************)

\* Bounds of the calls tried: nconf ranges over -1..MaxNconf and the
\* one long schedule BigNconf.
MaxNconf == 7
BigNconf == 2300
NconfSet == (-1..MaxNconf) \cup {BigNconf}
FcSet == {<<1, 1>>, <<1, 2>>, <<2, 3>>}
TbarSet == {3 * Scale, 7 * Scale, 14 * Scale}
EnergySet == {0, 3 * Scale}

\* What np.log gives below 0 (nan), and every time computed from it.
NotFinite == "not finite"

\* atanh(z) for |z| <= 1/3 by its series, z and the result in fixed point.
AtanhS(z) ==
    LET z2 == (z * z) \div Scale
        z3 == (z2 * z) \div Scale
        z5 == (z2 * z3) \div Scale
        z7 == (z2 * z5) \div Scale
        z9 == (z2 * z7) \div Scale
    IN  z + (z3 \div 3) + (z5 \div 5) + (z7 \div 7) + (z9 \div 9)

Ln2S == 2 * AtanhS(Scale \div 3)

\* ln(n/d) for d/2 < n <= d:  2 * atanh((n - d) / (n + d))
LnNear1(n, d) == 2 * AtanhS(((n - d) * Scale) \div (n + d))

RECURSIVE LnS(_, _)
\* line 76, 83: np.log(n/d) for 0 < n <= d, in fixed point
LnS(n, d) == IF 2 * n <= d THEN LnS(2 * n, d) - Ln2S ELSE LnNear1(n, d)

\* line 60 with 1.0 written for 2.0
RatioEntryMut(k, den) ==
    IF 2 * k >= den THEN den - 2 * k ELSE 2 * k

\* line 59-63: the entry appended in pass k (1-based) of the first loop, as a
\* numerator over den = intermediate + 1; current_step_size is k * step_size
\* = 2k/den in that pass.
RatioEntry(k, den) ==
    IF 2 * k >= den THEN 2 * den - 2 * k ELSE 2 * k

Max(a, b) == IF a > b THEN a ELSE b

\* line 52-65: the list ratio, as numerators over nconf - 1
Ratio(nconf) ==
    LET intermediate == nconf - 2
        n == 2 + Max(intermediate, 0)
    IN  [i \in 1..n |->
            IF i = 1 \/ i = n THEN 0 ELSE RatioEntry(i - 1, intermediate + 1)]

\* line 76, 83: float(7 + np.log(ratio[step])) / float(fc), fc = fc[1]/fc[2]
LogTime(r, den, fc) == ((7 * Scale + LnS(r, den)) * fc[2]) \div fc[1]

\* line 71: step <= nconf / 2
FirstHalf(s, nconf) == 2 * s <= nconf

\* line 70-84: the entry appended to t in pass s (0-based) of the second loop
TimeEntry(a, s) ==
    LET r == Ratio(a.nconf)[s + 1]
        den == a.nconf - 1
        tf == a.tbar_left + a.tbar_right
    IN  IF FirstHalf(s, a.nconf)
        THEN IF r = 0 THEN 0
             ELSE IF r < 0 THEN NotFinite
             ELSE LogTime(r, den, a.fc_left)
        ELSE IF r = 0 THEN tf
             ELSE IF r < 0 THEN NotFinite
             ELSE tf - LogTime(r, den, a.fc_right)

\* line 70-84: the entry appended to energy in pass s
EnergyEntry(a, s) ==
    LET r == Ratio(a.nconf)[s + 1]
        den == a.nconf - 1
    IN  IF FirstHalf(s, a.nconf)
        THEN IF r = 0 THEN 0 + (a.energy_right - a.energy_left)
             ELSE (r * a.energy_left) \div den + (a.energy_right - a.energy_left)
        ELSE IF r = 0 THEN 0 ELSE (r * a.energy_right) \div den

\* line 72-83: the ratios handed to np.log
LogArgs(a) ==
    {Ratio(a.nconf)[s + 1] :
        s \in {x \in 0..(a.nconf - 1) : Ratio(a.nconf)[x + 1] # 0}}

\* line 35-86.  nconf = 1 makes line 50 divide 2.0 by zero, which raises
\* ZeroDivisionError; for nconf <= 0 both loops run zero times.
time_steps(a) ==
    IF a.nconf - 2 + 1 = 0
    THEN [kind |-> "raise", error |-> "ZeroDivisionError"]
    ELSE [kind |-> "return",
          ratio |-> Ratio(a.nconf),
          logged |-> LogArgs(a),
          t |-> [i \in 1..Max(a.nconf, 0) |-> TimeEntry(a, i - 1)],
          energy |-> [i \in 1..Max(a.nconf, 0) |-> EnergyEntry(a, i - 1)]]

(***************************************************************************)
(* Calls of the two Time methods                                           *)
(***************************************************************************)

NoArgs == [nconf |-> 0]
NoSelf == [tbar_left |-> 0]
NoRet == [kind |-> "none"]
InitTime ==
    /\ pc = "call"
    /\ eigenvalue \in Spectra
    /\ tts = "none"
    /\ args = NoArgs /\ ret = NoRet
    /\ self = NoSelf
    /\ eval_left = <<>> /\ eval_right = <<>>
    /\ eval_left0 = <<>> /\ eval_right0 = <<>>
    /\ others = "none" /\ ts = "none" /\ xlr = <<>> /\ coord = <<>> /\ step = 0

\* Time.time_to_transition_state(eigenvalue)
TimeToTransitionState ==
    /\ pc = "call"
    /\ tts' = time_to_transition_state(eigenvalue)
    /\ pc' = "done"
    /\ UNCHANGED <<eigenvalue, args, ret, self, eval_left, eval_right,
                   eval_left0, eval_right0, others, ts, xlr, coord, step>>

NextTime == TimeToTransitionState

SpecTime == InitTime /\ [][NextTime]_vars

InitSteps ==
    /\ pc = "call"
    /\ eigenvalue = <<>> /\ tts = "none"
    /\ args \in [tbar_left : TbarSet, tbar_right : TbarSet,
                 fc_left : FcSet, fc_right : FcSet,
                 energy_left : EnergySet, energy_right : EnergySet,
                 nconf : NconfSet]
    /\ ret = NoRet
    /\ self = NoSelf
    /\ eval_left = <<>> /\ eval_right = <<>>
    /\ eval_left0 = <<>> /\ eval_right0 = <<>>
    /\ others = "none" /\ ts = "none" /\ xlr = <<>> /\ coord = <<>> /\ step = 0

\* Time.time_steps(tbar_left, ..., nconf)
TimeSteps ==
    /\ pc = "call"
    /\ ret' = time_steps(args)
    /\ pc' = "done"
    /\ UNCHANGED <<eigenvalue, tts, args, self, eval_left, eval_right,
                   eval_left0, eval_right0, others, ts, xlr, coord, step>>

NextSteps == TimeSteps

SpecSteps == InitSteps /\ [][NextSteps]_vars

(***************************************************************************)
(* Transition                                                              *)
(***************************************************************************)

\* Resolution of the modelled eigenvalues: e is held as e * EvalUnit.
EvalUnit == 10000000

\* Bounds of the constructions tried.  Dimensions is natoms * constant.dim.
Dimensions == 2
MaxTrajNconf == 4
\* -3e-7, 5e-7, 1.0 and 120.0
EvalSet == {-3, 5, EvalUnit, 120 * EvalUnit}
FcPairs == {<<1, 1>>, <<1, 2>>}

\* line 153, 162, 209, 218: e < 0.000001
NearZero(e) == e < EvalUnit \div 1000000

\* e * x for an eigenvalue e and a time x, in the fixed point of the times;
\* exact for eigenvalues that are whole numbers, which is what EvalSet holds
\* at and above 0.000001.
Mul(e, x) == (e \div EvalUnit) * x

\* line 157, 166: -700 < x < 700
Within700(x) == x < 700 * Scale /\ x > -700 * Scale

\* math.sinh raises OverflowError for |x| > 710.4758...
SinhOverflows(x) == Abs(x) > 710 * Scale + 47586

\* line 148-156 for one i: the entries b_left[i][i], s_left[i][i] and the
\* value self.eval1[i] is left with.
LeftMode(e, tbar_left) ==
    IF NearZero(e)
    THEN [b |-> <<"1/tbar_left">>, s |-> <<"1/tbar_left">>, eval |-> 0]
    ELSE IF Within700(Mul(e, tbar_left))
    THEN [b |-> <<"e*cosh/sinh", Mul(e, tbar_left)>>,
          s |-> <<"e*exp/sinh", Mul(e, tbar_left)>>, eval |-> e]
    ELSE [b |-> <<"e", e>>, s |-> <<"0">>, eval |-> e]

\* line 150, 162-170 for one i: a_right[i][i], s_right[i][i], self.eval2[i]
RightMode(e, tbar_left, tf) ==
    IF NearZero(e)
    THEN [a |-> <<"1/(tbar_left-tf)">>, s |-> <<"-1/(tbar_left-tf)">>, eval |-> 0]
    ELSE IF Within700(Mul(e, tbar_left - tf))
    THEN [a |-> <<"e*cosh/sinh", Mul(e, tbar_left - tf)>>,
          s |-> <<"e*exp/sinh", Mul(e, tf - tbar_left)>>, eval |-> e]
    ELSE [a |-> <<"-e", e>>, s |-> <<"0">>, eval |-> e]

\* line 209-216: the value written to xlr[dim][dim] in pass s when
\* t_series[s] < tbar_left.  num and den are the arguments of the quotient:
\* num/den itself (linear), sinh(num)/sinh(den) (sinh), exp(num) (exp).
LeftWeight(e, t, tbar_left, s) ==
    IF NearZero(e)
    THEN [form |-> "linear", side |-> "left", step |-> s, e |-> e, t |-> t,
          num |-> t, den |-> tbar_left]
    ELSE IF SinhOverflows(Mul(e, t)) \/ SinhOverflows(Mul(e, tbar_left))
    THEN [form |-> "exp", side |-> "left", step |-> s, e |-> e, t |-> t,
          num |-> Mul(e, t - tbar_left), den |-> 1]
    ELSE [form |-> "sinh", side |-> "left", step |-> s, e |-> e, t |-> t,
          num |-> Mul(e, t), den |-> Mul(e, tbar_left)]

\* line 218-225: the value written to xlr[dim][dim] otherwise.  The sinh form
\* is -sinh(-num)/sinh(den) = sinh(num)/sinh(den) with num = e * (tf - t).
RightWeight(e, t, tbar_right, tf, s) ==
    IF NearZero(e)
    THEN [form |-> "linear", side |-> "right", step |-> s, e |-> e, t |-> t,
          num |-> tf - t, den |-> tbar_right]
    ELSE IF SinhOverflows(Mul(e, t - tf)) \/ SinhOverflows(Mul(e, tbar_right))
    THEN [form |-> "exp", side |-> "right", step |-> s, e |-> e, t |-> t,
          num |-> Mul(e, t - tf - tbar_right), den |-> 1]
    ELSE [form |-> "sinh", side |-> "right", step |-> s, e |-> e, t |-> t,
          num |-> -Mul(e, t - tf), den |-> Mul(e, tbar_right)]

\* line 207 with the loop over dim starting one late, at dim = 1
InnerLoopMut(buf, s) ==
    LET t == self.t_series[s + 1]
    IN  [dim \in 1..Dimensions |->
            IF dim = 1 THEN buf[dim]
            ELSE IF t < self.tbar_left
            THEN LeftWeight(eval_left[dim], t, self.tbar_left, s)
            ELSE RightWeight(eval_right[dim], t, self.tbar_right, self.tf, s)]

\* line 207-225: xlr after the inner loop of pass s over buf, the xlr left
\* by the pass before
InnerLoop(buf, s) ==
    LET t == self.t_series[s + 1]
    IN  [dim \in 1..Dimensions |->
            IF t < self.tbar_left
            THEN LeftWeight(eval_left[dim], t, self.tbar_left, s)
            ELSE RightWeight(eval_right[dim], t, self.tbar_right, self.tf, s)]

\* line 227-230: coord[step], by the operands of its expression
CoordEntry(buf, s) ==
    IF self.t_series[s + 1] < self.tbar_left
    THEN [evec |-> "evec1", xlr |-> buf, work |-> "work_left",
          plus |-> "coord_left"]
    ELSE [evec |-> "evec2", xlr |-> buf, work |-> "work_right",
          plus |-> "coord_right"]

InitTransition ==
    /\ pc = "call"
    /\ eigenvalue = <<>> /\ tts = "none"
    /\ \E fl \in FcPairs, fr \in FcPairs, n \in 0..MaxTrajNconf :
          args = [tbar_left |-> (7 * Scale * fl[2]) \div fl[1],
                  tbar_right |-> (7 * Scale * fr[2]) \div fr[1],
                  fc_left |-> fl, fc_right |-> fr,
                  energy_left |-> 0, energy_right |-> 0, nconf |-> n]
    /\ ret = NoRet
    /\ self = NoSelf
    /\ eval_left \in [1..Dimensions -> EvalSet]
    /\ eval_right \in [1..Dimensions -> EvalSet]
    /\ eval_left0 = eval_left /\ eval_right0 = eval_right
    /\ others = [evec_left |-> "evec_left", evec_right |-> "evec_right",
                 coord_left |-> "coord_left", coord_right |-> "coord_right"]
    /\ ts = "none" /\ xlr = <<>> /\ coord = <<>> /\ step = 0

\* Transition.__init__, line 109-126, called with the schedule time_steps
\* returned
TransitionInit ==
    /\ pc = "done"
    /\ ret.kind = "return"
    /\ self' = [tbar_left |-> args.tbar_left, tbar_right |-> args.tbar_right,
                t_series |-> ret.t, tf |-> args.tbar_left + args.tbar_right,
                kl |-> args.fc_left, kr |-> args.fc_right,
                evec1 |-> others.evec_left, evec2 |-> others.evec_right,
                coord_left |-> others.coord_left,
                coord_right |-> others.coord_right]
    /\ pc' = "transition_state"
    /\ UNCHANGED <<eigenvalue, tts, args, ret, eval_left, eval_right,
                   eval_left0, eval_right0, others, ts, xlr, coord, step>>

\* Transition.transition_state, line 132-192.  Whether den is invertible
\* (line 181) depends on the eigenvectors and coordinates, which are not
\* modelled: both outcomes are allowed.
TransitionState ==
    /\ pc = "transition_state"
    /\ LET L == [i \in 1..Dimensions |-> LeftMode(eval_left[i], self.tbar_left)]
           R == [i \in 1..Dimensions |->
                    RightMode(eval_right[i], self.tbar_left, self.tf)]
       IN  /\ eval_left' = [i \in 1..Dimensions |-> L[i].eval]
           /\ eval_right' = [i \in 1..Dimensions |-> R[i].eval]
           /\ ts' = [b_left |-> [i \in 1..Dimensions |-> L[i].b],
                     s_left |-> [i \in 1..Dimensions |-> L[i].s],
                     a_right |-> [i \in 1..Dimensions |-> R[i].a],
                     s_right |-> [i \in 1..Dimensions |-> R[i].s]]
    /\ \E singular \in BOOLEAN :
          IF singular
          THEN pc' = "raised" /\ xlr' = xlr
          ELSE /\ pc' = "trajectory"
               \* line 203
               /\ xlr' = [dim \in 1..Dimensions |->
                            [form |-> "linear", side |-> "none", step |-> -1,
                             e |-> 0, t |-> 0, num |-> 0, den |-> 1]]
    /\ UNCHANGED <<eigenvalue, tts, args, ret, self, eval_left0, eval_right0,
                   others, coord, step>>

\* Transition.trajectory, line 205-230: one pass of the loop over step
TrajectoryStep ==
    /\ pc = "trajectory"
    /\ step < Len(self.t_series)
    /\ xlr' = InnerLoop(xlr, step)
    /\ coord' = Append(coord, CoordEntry(InnerLoop(xlr, step), step))
    /\ step' = step + 1
    /\ UNCHANGED <<pc, eigenvalue, tts, args, ret, self, eval_left, eval_right,
                   eval_left0, eval_right0, others, ts>>

\* Transition.trajectory, line 232, and the end of __init__
TrajectoryReturn ==
    /\ pc = "trajectory"
    /\ step = Len(self.t_series)
    /\ pc' = "constructed"
    /\ UNCHANGED <<eigenvalue, tts, args, ret, self, eval_left, eval_right,
                   eval_left0, eval_right0, others, ts, xlr, coord, step>>

Next ==
    \/ TimeSteps
    \/ TransitionInit
    \/ TransitionState
    \/ TrajectoryStep
    \/ TrajectoryReturn

Spec == InitTransition /\ [][Next]_vars

(***************************************************************************)
(* Properties                                                              *)
(***************************************************************************)

Returned == pc = "done" /\ ret.kind = "return"

\* C1: for every nconf >= 2, time_steps returns (times, energies) with
\* len(times) = len(energies) = nconf, times[0] = 0 and
\* times[nconf-1] = tbar_left + tbar_right.
C1_ScheduleEndpoints ==
    (pc = "done" /\ ret.kind # "none" /\ args.nconf >= 2) =>
        /\ ret.kind = "return"
        /\ Len(ret.t) = args.nconf
        /\ Len(ret.energy) = args.nconf
        /\ ret.t[1] = 0
        /\ ret.t[args.nconf] = args.tbar_left + args.tbar_right

\* tbar is the time to transition state of a side with force constant fc:
\* tbar = 7 / fc (line 33).
IsTimeOf(tbar, fc) == tbar = (7 * Scale * fc[2]) \div fc[1]

\* C2: for every nconf >= 2 and positive force constants, with tbar_left and
\* tbar_right the times to transition state of the two sides, the returned
\* times are non-decreasing: times[i] <= times[i+1] for 0 <= i < nconf-1.
C2_TimesNonDecreasing ==
    (/\ Returned
     /\ args.nconf >= 2
     /\ IsTimeOf(args.tbar_left, args.fc_left)
     /\ IsTimeOf(args.tbar_right, args.fc_right)) =>
        \A i \in 1..(Len(ret.t) - 1) : ret.t[i] <= ret.t[i + 1]

\* C3: if fc_left = fc_right, tbar_left = tbar_right and both energies are 0,
\* then for every nconf >= 2 the schedule is symmetric about its midpoint:
\* times[i] + times[nconf-1-i] = tbar_left + tbar_right for every index i.
\* Stated for the calls the pipeline makes, where each tbar is the time to
\* transition state of its side (7 / fc); the claim covers these.
C3_ScheduleSymmetric ==
    (/\ Returned
     /\ args.nconf >= 2
     /\ args.fc_left = args.fc_right
     /\ args.tbar_left = args.tbar_right
     /\ IsTimeOf(args.tbar_left, args.fc_left)
     /\ args.energy_left = 0 /\ args.energy_right = 0) =>
        \A i \in 1..Len(ret.t) :
            ret.t[i] + ret.t[Len(ret.t) + 1 - i] = args.tbar_left + args.tbar_right

\* C5: for every spectrum of length >= 6 whose retained eigenvalues are all
\* positive, time_to_transition_state returns a strictly positive (finite)
\* time and a strictly positive force constant with time = 7 / force_constant.
C5_PositiveTimeAndForceConstant ==
    (/\ pc = "done" /\ eigenvalue # <<>>
     /\ \A i \in 1..Len(Retained(eigenvalue)) : Retained(eigenvalue)[i] > 0) =>
        /\ tts.fc[1] > 0 /\ tts.fc[2] > 0
        /\ tts.time[1] > 0 /\ tts.time[2] > 0
        /\ tts.time[1] * tts.fc[1] = 7 * tts.time[2] * tts.fc[2]

\* C7: time_steps rejects every nconf < 2 with an error and returns no
\* schedule, empty or partial, in that case.
C7_RejectsNconfBelow2 ==
    (pc = "done" /\ ret.kind # "none" /\ args.nconf < 2) => ret.kind = "raise"

\* C8: for every nconf >= 2 the ratio sequence built by time_steps has length
\* nconf, is 0 at indices 0 and nconf-1, and every interior entry lies in
\* (0, 1]; only ratios > 0 are handed to the logarithm.
C8_RatioRange ==
    (pc = "done" /\ ret.kind # "none" /\ args.nconf >= 2) =>
        /\ ret.kind = "return"
        /\ Len(ret.ratio) = args.nconf
        /\ ret.ratio[1] = 0
        /\ ret.ratio[args.nconf] = 0
        /\ \A i \in 2..(args.nconf - 1) :
              ret.ratio[i] > 0 /\ ret.ratio[i] <= args.nconf - 1
        /\ \A r \in ret.logged : r > 0

\* C8 witness: a returned schedule whose ratios rise to exactly 1 and fold
\* back, and one of even length.
C8_Witness ==
    /\ Returned
    /\ args.nconf >= 5
    /\ \E i \in 2..(args.nconf - 1) :
          /\ ret.ratio[i] = args.nconf - 1
          /\ ret.ratio[i + 1] < ret.ratio[i]
          /\ ret.ratio[i + 1] \in ret.logged

Constructed == pc = "constructed"

\* exp underflows to 0.0 below -745.13...
IsZeroWeight(w) ==
    IF w.form = "exp" THEN w.num < -(745 * Scale + 13322) ELSE w.num = 0

\* C4: for every nconf >= 2 and positive tbar_left, tbar_right, with the
\* t_series produced by time_steps, trajectory entry 0 is coord_left (left
\* side, every weight 0) and entry nconf-1 is coord_right (right side, every
\* weight 0).
C4_TrajectoryEndpoints ==
    (Constructed /\ args.nconf >= 2 /\ self.tbar_left > 0 /\ self.tbar_right > 0) =>
        /\ Len(coord) = args.nconf
        /\ coord[1].plus = "coord_left"
        /\ \A dim \in 1..Dimensions : IsZeroWeight(coord[1].xlr[dim])
        /\ coord[args.nconf].plus = "coord_right"
        /\ \A dim \in 1..Dimensions : IsZeroWeight(coord[args.nconf].xlr[dim])

\* C6: constructing a Transition leaves the caller's inputs unchanged,
\* whether it succeeds or raises: every entry of eval_left and eval_right
\* (and evec_left, evec_right, coord_left, coord_right, t_series) has the
\* value it had before the call.
C6_InputsUnchanged ==
    (pc \in {"constructed", "raised"}) =>
        /\ eval_left = eval_left0
        /\ eval_right = eval_right0
        /\ others = [evec_left |-> "evec_left", evec_right |-> "evec_right",
                     coord_left |-> "coord_left", coord_right |-> "coord_right"]
        /\ self.t_series = ret.t

SideOf(k) == IF self.t_series[k] < self.tbar_left THEN "left" ELSE "right"

\* C9: coord[k] is computed from t_series[k] only and from one side: the side
\* of every weight is the side whose eigenvectors, work vector and coordinate
\* are used, every weight used at step k was written during step k, and the
\* output has len(t_series) entries in schedule order.
C9_StepUsesOneSide ==
    /\ pc \in {"trajectory", "constructed"} =>
          \A k \in 1..Len(coord) :
              /\ \A dim \in 1..Dimensions :
                    /\ coord[k].xlr[dim].step = k - 1
                    /\ coord[k].xlr[dim].t = self.t_series[k]
                    /\ coord[k].xlr[dim].side = SideOf(k)
              /\ SideOf(k) = "left" =>
                    /\ coord[k].evec = "evec1" /\ coord[k].work = "work_left"
                    /\ coord[k].plus = "coord_left"
              /\ SideOf(k) = "right" =>
                    /\ coord[k].evec = "evec2" /\ coord[k].work = "work_right"
                    /\ coord[k].plus = "coord_right"
    /\ Constructed => Len(coord) = Len(self.t_series)

\* C9 witness: a finished trajectory with steps on both sides, one of which
\* took the overflow fallback after an earlier step took another form in the
\* same slot of xlr.
C9_Witness ==
    /\ Constructed
    /\ Len(coord) >= 3
    /\ \E j, k \in 1..Len(coord) : \E dim \in 1..Dimensions :
          /\ j < k
          /\ coord[j].plus = "coord_left" /\ coord[k].plus = "coord_right"
          /\ coord[j].xlr[dim].form = "linear"
          /\ coord[k].xlr[dim].form = "exp"

\* C10: whenever the hyperbolic weight overflows, the fallback exponent is
\* the large-argument limit of the weight it replaces: eigenvalue *
\* (t - tbar_left) on the left, eigenvalue * (tf - t - tbar_right) on the
\* right, so that the fallback weight is 1 at t = tbar_left.
C10_FallbackIsLimit ==
    pc \in {"trajectory", "constructed"} =>
        \A k \in 1..Len(coord) : \A dim \in 1..Dimensions :
            LET w == coord[k].xlr[dim]
            IN  w.form = "exp" =>
                    /\ w.side = "left" => w.num = Mul(w.e, w.t - self.tbar_left)
                    /\ w.side = "right" =>
                          w.num = Mul(w.e, self.tf - w.t - self.tbar_right)

====
